---------------------------- MODULE Spec2Model ----------------------------
(***************************************************************************)
(* A model of the two computations of ralph_assets that carry logic:       *)
(*   - get_empty_positions, the closure of AssetInfoPerRackAPIView.get     *)
(*     (rest/asset_info_per_rack.py) that derives the empty rack units;    *)
(*   - Asset.is_deprecated (models_assets.py), which compares the invoice  *)
(*     date advanced by the support period with the current date.          *)
(***************************************************************************)
EXTENDS Integers, Sequences, FiniteSets, TLC

VARIABLES
    \* ---- get_empty_positions: the arguments and outcome of the last call
    max_height,         \* argument max_height
    devices,            \* argument devices: a sequence of item dicts
    rack_outcome,       \* "none" (not called) | "return" | the exception raised
    empty_positions,    \* the returned set (when rack_outcome = "return")
    positions_left,     \* the local list positions as the last call left it
    call_log,           \* the calls made so far, oldest first
    \* ---- AssetInfoPerRackAPIView.get: the tables it reads and its response
    rack,               \* the Rack row of rack_id: [exists, max_u_height]
    device_infos,       \* the rack's DeviceInfo rows, in the order of the query
    rack_accessories,   \* the rack's RackAccessory rows, in the order of the query
    response,           \* the Response returned: [status, sides]
    \* ---- AddLicence.post: the form posted, the licence table, the outcome
    mode,               \* self.mode
    form,               \* the bound form: [fields_ok, sn, niw, asset_type]
    licences,           \* the rows of the Licence table, oldest first
    licences_before,    \* the table as the request found it
    message,            \* the number in the success message, PyNone if none
    post_response,      \* [kind, pk]: "none" | "redirect" | "render" | an exception
    \* ---- Asset.is_deprecated: the asset record, the clock, the last call
    asset,              \* self: [invoice_date, support_period]
    clock,              \* the date datetime.datetime.today() gives now
    ticks,              \* days the clock has advanced since the start
    self_before,        \* self as it was when the last call started
    today,              \* the date the last call read from the clock
    deprecation_date,   \* the local deprecation_date of the last call
    dep_outcome,        \* "none" (not called) | "return" | the exception raised
    result              \* the returned boolean (when dep_outcome = "return")

rack_vars == <<max_height, devices, rack_outcome, empty_positions,
               positions_left, call_log>>
dep_vars == <<asset, clock, ticks, self_before, today, deprecation_date,
              dep_outcome, result>>
endpoint_vars == <<rack, device_infos, rack_accessories, response>>
licence_vars == <<mode, form, licences, licences_before, message, post_response>>
vars == <<rack_vars, dep_vars, endpoint_vars, licence_vars>>

(***************************************************************************)
(* Bounds of the model.                                                    *)
(***************************************************************************)
MaxRackHeight == 4      \* max_height ranges over -1..MaxRackHeight
MaxPosition == 4        \* item positions range over 1..MaxPosition
MaxItemHeight == 2      \* asset heights range over 1..MaxItemHeight
MaxDevices == 2         \* at most this many items on a rack side
MaxPeriod == 13         \* support_period ranges over None, 0..MaxPeriod
MaxTicks == 1           \* days the clock advances during a behaviour
MaxCalls == 3           \* calls of get_empty_positions in a row
MaxUnits == 2           \* max_u_height and row positions range over 1..MaxUnits
MaxAssetRows == 2       \* at most this many DeviceInfo rows in the rack
MaxPairs == 2           \* at most this many lines in the sn and niw fields

(***************************************************************************)
(* Rack items, as get_data_by_side builds them.                            *)
(***************************************************************************)
TYPE_EMPTY == "empty"
TYPE_ACCESSORY == "accessory"
TYPE_ASSET == "asset"

\* The value of the local `height` before any item has assigned it.
Unbound == 0 - 1

\* An accessory dict carries no 'height' key; an asset dict does.
AccessoryItems == [_type : {TYPE_ACCESSORY}, position : 1..MaxPosition]
AssetItems == [_type : {TYPE_ASSET}, position : 1..MaxPosition,
               height : 1..MaxItemHeight]
Items == AccessoryItems \cup AssetItems

RECURSIVE SeqsUpTo(_, _)
SeqsUpTo(S, n) ==
    IF n = 0 THEN {<<>>}
    ELSE LET shorter == SeqsUpTo(S, n - 1)
         IN  shorter \cup {Append(s, x) : s \in {t \in shorter : Len(t) = n - 1},
                                          x \in S}

DeviceLists == SeqsUpTo(Items, MaxDevices)
RackHeights == (0 - 1)..MaxRackHeight

(***************************************************************************)
(* get_empty_positions, line by line.                                      *)
(***************************************************************************)
\* range(a, b): the list a, a+1, ..., b-1 (empty when b <= a).
python_range(a, b) == IF b > a THEN [i \in 1..(b - a) |-> a + i - 1] ELSE <<>>

\* xrange(1, max_height + 1) as the set it is turned into.
full_range_from_zero(max_h) == {p \in 0..max_h : TRUE}

full_range(max_h) == {p \in 1..max_h : TRUE}

\* The two `if`s of the loop body: the value of `height` after them, given
\* its value before (it survives from the previous iteration).
item_height_carried(item, height) ==
    IF item._type = TYPE_ASSET THEN item.height ELSE height

item_height(item, height) ==
    IF item._type = TYPE_ACCESSORY THEN 1
    ELSE IF item._type = TYPE_ASSET THEN item.height
    ELSE height

\* positions.extend(r)
list_assign(positions, r) == r

list_extend(positions, r) == positions \o r

\* positions = []: every call starts from a list of its own.
leftover_list == positions_left

empty_list == <<>>

\* The for loop: from item i on, with the locals positions and height.
\* Returns [exc, positions]; reading an unbound height is UnboundLocalError.
RECURSIVE collect_positions(_, _, _, _)
collect_positions(devs, i, positions, height) ==
    IF i > Len(devs) THEN [exc |-> "return", positions |-> positions]
    ELSE LET item == devs[i]
             position == item.position
             h == item_height(item, height)
         IN  IF h = Unbound
             THEN [exc |-> "UnboundLocalError", positions |-> positions]
             ELSE collect_positions(
                      devs, i + 1,
                      list_extend(positions, python_range(position, position + h)),
                      h)

\* set(l) of a list l
list_to_set(l) == {l[i] : i \in 1..Len(l)}

\* a - b on sets
set_symmetric_difference(a, b) == (a \ b) \cup (b \ a)

set_reversed_difference(a, b) == b \ a

set_difference(a, b) == a \ b

\* The whole function: [exc, value].
get_empty_positions(max_h, devs) ==
    LET loop == collect_positions(devs, 1, empty_list, Unbound)
    IN  IF loop.exc # "return"
        THEN [exc |-> loop.exc, value |-> {}]
        ELSE [exc |-> "return",
              value |-> set_difference(full_range(max_h),
                                       list_to_set(loop.positions))]

\* The list positions as a call leaves it.
positions_after(devs) == collect_positions(devs, 1, empty_list, Unbound).positions

\* The items as a call leaves them: the loop reads item['position'],
\* item['_type'] and item['height'] and assigns to none of them.
devices_after(devs) == [i \in 1..Len(devs) |-> devs[i]]

\* The inputs of the calls made one after another: racks of 0 and 3 units,
\* up to two items out of an accessory at unit 1 and a 2-unit asset at unit 2.
CallItems == {[_type |-> TYPE_ACCESSORY, position |-> 1],
              [_type |-> TYPE_ASSET, position |-> 2, height |-> 2]}
CallDeviceLists == SeqsUpTo(CallItems, 2)
CallHeights == {0, 3}

(***************************************************************************)
(* AssetInfoPerRackAPIView.get.                                            *)
(*                                                                         *)
(* A DeviceInfo row is [orientation, position, height], height being       *)
(* asset.model.height_of_device; a RackAccessory row is [orientation,      *)
(* position].  The rows are those of the rack asked for.  Of an item dict  *)
(* the keys _type, position and height are kept; the others (asset_id,     *)
(* model, barcode, sn, url, remarks, type) are copied from the row and     *)
(* read by nothing here.                                                   *)
(***************************************************************************)
Sides == <<"front", "back">>

NoRack == [exists |-> FALSE, max_u_height |-> 0]
NoResponse == [status |-> 0, sides |-> <<>>]

DeviceInfoRows == [orientation : {"front", "back"}, position : 1..MaxUnits,
                   height : {1, 2}]
RackAccessoryRows == [orientation : {"front", "back"}, position : 1..MaxUnits]

\* filter(rack=rack, orientation=side)
on_any_side(row, side) == TRUE

on_side(row, side) == row.orientation = side

asset_dict(device) ==
    [_type |-> TYPE_ASSET, position |-> device.position, height |-> device.height]

accessory_dict(rack_accessory) ==
    [_type |-> TYPE_ACCESSORY, position |-> rack_accessory.position]

empty_dict(empty_position) == [_type |-> TYPE_EMPTY, position |-> empty_position]

\* The lists a for loop over the set S can go through: a set has no order
\* of its own.
IterationOrders(S) ==
    {f \in [1..Cardinality(S) -> S] :
        \A a, b \in 1..Cardinality(S) : a # b => f[a] # f[b]}

\* results of get_data_by_side before the empty positions are appended.
placed_results(infos, accessories, side) ==
    LET side_infos == SelectSeq(infos, LAMBDA r : on_side(r, side))
        side_accessories == SelectSeq(accessories, LAMBDA r : on_side(r, side))
    IN  [i \in 1..Len(side_infos) |-> asset_dict(side_infos[i])]
            \o [i \in 1..Len(side_accessories) |->
                   accessory_dict(side_accessories[i])]

\* The lists get_data_by_side(rack, side) can return.
get_data_by_side(max_u_height, infos, accessories, side) ==
    LET results == placed_results(infos, accessories, side)
        empty == get_empty_positions(max_u_height, results).value
    IN  {results \o [i \in 1..Len(order) |-> empty_dict(order[i])] :
            order \in IterationOrders(empty)}

(***************************************************************************)
(* Dates and the asset record.                                             *)
(*                                                                         *)
(* A date is <<year, month, day>>.  The value of the field invoice_date is *)
(* [type, date, text]: None, a datetime.date, a datetime.datetime (its     *)
(* time of day plays no part and is left out) or a 'YYYY-MM-DD' string,    *)
(* held as the sequence of its characters in text.                         *)
(***************************************************************************)
NoDate == <<0, 0, 0>>
PyNone == 0 - 1     \* support_period is None

NoneValue == [type |-> "None", date |-> NoDate, text |-> <<>>]
DateValue(d) == [type |-> "date", date |-> d, text |-> <<>>]
DatetimeValue(d) == [type |-> "datetime", date |-> d, text |-> <<>>]
StringValue(t) == [type |-> "basestring", date |-> NoDate, text |-> t]

\* An asset record and a clock that nothing has touched (the state of the
\* deprecation part while only the rack part runs).
IdleAsset == [invoice_date |-> NoneValue, support_period |-> 0]

\* calendar.isleap and calendar.monthrange(year, month)[1]
isleap(year) == year % 4 = 0 /\ (year % 100 # 0 \/ year % 400 = 0)

days_in_month(year, month) ==
    IF month = 2 THEN (IF isleap(year) THEN 29 ELSE 28)
    ELSE IF month \in {4, 6, 9, 11} THEN 30 ELSE 31

IsDate(d) ==
    /\ d[2] \in 1..12
    /\ d[3] >= 1 /\ d[3] <= days_in_month(d[1], d[2])

\* The day after d: how the clock moves from one day to the next.
next_day(d) ==
    IF d[3] < days_in_month(d[1], d[2]) THEN <<d[1], d[2], d[3] + 1>>
    ELSE IF d[2] < 12 THEN <<d[1], d[2] + 1, 1>>
    ELSE <<d[1] + 1, 1, 1>>

\* The characters of a date written as '%Y-%m-%d'.
Digits == <<"0", "1", "2", "3", "4", "5", "6", "7", "8", "9">>
digit_char(n) == Digits[n + 1]
digit_value(c) == CHOOSE n \in 0..9 : Digits[n + 1] = c

strftime(d) ==
    <<digit_char(d[1] \div 1000), digit_char((d[1] \div 100) % 10),
      digit_char((d[1] \div 10) % 10), digit_char(d[1] % 10), "-",
      digit_char(d[2] \div 10), digit_char(d[2] % 10), "-",
      digit_char(d[3] \div 10), digit_char(d[3] % 10)>>

\* datetime.datetime.strptime(text, '%Y-%m-%d'), for a well-formed text.
strptime(text) ==
    <<digit_value(text[1]) * 1000 + digit_value(text[2]) * 100
        + digit_value(text[3]) * 10 + digit_value(text[4]),
      digit_value(text[6]) * 10 + digit_value(text[7]),
      digit_value(text[9]) * 10 + digit_value(text[10])>>

\* relativedelta(months=n): the constructor folds whole years out of months.
relativedelta(months) ==
    IF months > 11
    THEN [years |-> months \div 12, months |-> months % 12]
    ELSE [years |-> 0, months |-> months]

\* d + delta: years and months are added, a month past December carries
\* into the year, and the day is cut down to the length of the month reached.
add_relativedelta_unclamped(d, delta) ==
    LET month0 == d[2] + delta.months
        year == d[1] + delta.years + (IF month0 > 12 THEN 1 ELSE 0)
        month == IF month0 > 12 THEN month0 - 12 ELSE month0
    IN  <<year, month, d[3]>>

add_relativedelta(d, delta) ==
    LET month0 == d[2] + delta.months
        year == d[1] + delta.years + (IF month0 > 12 THEN 1 ELSE 0)
        month == IF month0 > 12 THEN month0 - 12 ELSE month0
        last == days_in_month(year, month)
    IN  <<year, month, IF d[3] > last THEN last ELSE d[3]>>

\* a < b on dates
date_lt_month_day(a, b) ==
    \/ a[2] < b[2]
    \/ a[2] = b[2] /\ a[3] < b[3]

date_le(a, b) ==
    \/ a[1] < b[1]
    \/ a[1] = b[1] /\ a[2] < b[2]
    \/ a[1] = b[1] /\ a[2] = b[2] /\ a[3] <= b[3]

date_lt(a, b) ==
    \/ a[1] < b[1]
    \/ a[1] = b[1] /\ a[2] < b[2]
    \/ a[1] = b[1] /\ a[2] = b[2] /\ a[3] < b[3]

\* datetime.datetime.today().date(): the clock is read when the line runs.
read_today_cached(now) == IF today # NoDate THEN today ELSE now

read_today(now) == now

\* Python's `not x` for the two fields.
not_period(p) == p = PyNone \/ p = 0
not_date(v) == v.type = "None" \/ (v.type = "basestring" /\ v.text = <<>>)

\* if not self.support_period or not self.invoice_date: return False
both_missing(self) == not_period(self.support_period) /\ not_date(self.invoice_date)

some_missing(self) == not_period(self.support_period) \/ not_date(self.invoice_date)

\* The value self.invoice_date holds after the isinstance/strptime lines.
parsed_invoice_date(v) ==
    IF v.type = "basestring" THEN DatetimeValue(strptime(v.text)) ELSE v

\* if isinstance(deprecation_date, datetime.datetime): .date()
as_date(v) == IF v.type = "datetime" THEN DateValue(v.date) ELSE v

\* Asset.is_deprecated, run on the record self when the clock reads now.
\* Gives the outcome, the value returned, self as the call leaves it and the
\* locals of the call.
is_deprecated(self, now) ==
    IF some_missing(self)
    THEN [exc |-> "return", value |-> FALSE, self |-> self,
          deprecation_date |-> NoDate, today |-> NoDate]
    ELSE LET inv == parsed_invoice_date(self.invoice_date)
             self1 == [self EXCEPT !.invoice_date = inv]
         IN  IF self.support_period = PyNone \/ inv.type = "None"
             THEN [exc |-> "TypeError", value |-> FALSE, self |-> self1,
                   deprecation_date |-> NoDate, today |-> NoDate]
             ELSE LET sum == [inv EXCEPT !.date = add_relativedelta(
                                 inv.date, relativedelta(self.support_period))]
                      dd == as_date(sum).date
                      t == read_today(now)
                  IN  [exc |-> "return", value |-> date_lt(dd, t),
                       self |-> self1, deprecation_date |-> dd,
                       today |-> t]

\* The inputs of the model: invoice dates at the ends of January and
\* December of a leap year, as a date or as the string a form hands over,
\* and clock dates around every end of month of the years that follow.
InvoiceDates == {d \in {2020} \X {1, 12} \X {1, 31} : IsDate(d)}
InvoiceValues ==
    {NoneValue} \cup {DateValue(d) : d \in InvoiceDates}
                \cup {StringValue(strftime(d)) : d \in InvoiceDates}
SupportPeriods == {PyNone} \cup 0..MaxPeriod
Assets == [invoice_date : InvoiceValues, support_period : SupportPeriods]
ClockDates == {d \in {2020, 2021, 2022} \X (1..12) \X {1, 28, 29, 30, 31} : IsDate(d)}

(***************************************************************************)
(* AddLicence.post (views_sam.py).                                         *)
(*                                                                         *)
(* A Licence row is [pk, sn, niw, asset_type]; the form instance is such a *)
(* record with pk PyNone until it is saved.  AddLicenceForm (forms_sam.py) *)
(* and MODE2ASSET_TYPE are not among the sources at hand: what the view    *)
(* needs of them is written down in form_is_valid and MODE2ASSET_TYPE.     *)
(***************************************************************************)
Modes == {"dc", "back_office"}

\* MODE2ASSET_TYPE[mode]
MODE2ASSET_TYPE(m) == IF m = "dc" THEN "data_center" ELSE "back_office"

\* form.is_valid(): every other field is acceptable, and the multi-line
\* fields sn and niw hold the same number of lines, at least one.
form_is_valid(f) == f.fields_ok /\ Len(f.sn) >= 1 /\ Len(f.sn) = Len(f.niw)

\* zip(a, b): pairs up to the end of the shorter list.
zip(a, b) ==
    [i \in 1..(IF Len(a) < Len(b) THEN Len(a) ELSE Len(b)) |-> <<a[i], b[i]>>]

\* self.form.instance.pk = None
keep_pk(instance) == instance

reset_pk(instance) == [instance EXCEPT !.pk = PyNone]

\* self.form.save(commit=False): the cleaned data of the model fields of
\* the form are written to the instance, which is returned.
form_save_uncommitted(instance, f) == [instance EXCEPT !.asset_type = f.asset_type]

\* if licence.asset_type is None: licence.asset_type = MODE2ASSET_TYPE[self.mode]
default_asset_type(licence, m) ==
    IF licence.asset_type = "None"
    THEN [licence EXCEPT !.asset_type = MODE2ASSET_TYPE(m)]
    ELSE licence

\* The primary key the table gives the next row inserted.
next_pk(table) ==
    IF table = <<>> THEN 1
    ELSE 1 + (CHOOSE k \in {table[i].pk : i \in 1..Len(table)} :
                 \A i \in 1..Len(table) : table[i].pk <= k)

\* licence.save(): inserts a row when pk is None, else writes over the row
\* with that pk.  Gives the instance and the table afterwards.
model_save(licence, table) ==
    IF licence.pk = PyNone
    THEN LET saved == [licence EXCEPT !.pk = next_pk(table)]
         IN  [licence |-> saved, table |-> Append(table, saved)]
    ELSE [licence |-> licence,
          table |-> [i \in 1..Len(table) |->
                        IF table[i].pk = licence.pk THEN licence ELSE table[i]]]

\* The for loop of post from pair i on: the instance, the table, and whether
\* the name licence has been bound.
RECURSIVE save_licences(_, _, _, _, _, _)
save_licences(pairs, i, instance, table, f, m) ==
    IF i > Len(pairs)
    THEN [licence |-> instance, table |-> table, bound |-> i > 1]
    ELSE LET fresh == reset_pk(instance)
             built == default_asset_type(form_save_uncommitted(fresh, f), m)
             filled == [built EXCEPT !.sn = pairs[i][1], !.niw = pairs[i][2]]
             saved == model_save(filled, table)
         IN  save_licences(pairs, i + 1, saved.licence, saved.table, f, m)

\* The instance of a form built without one: Licence().
NewLicence == [pk |-> PyNone, sn |-> "", niw |-> "", asset_type |-> "None"]

\* post: the table, the message and the response it ends with.
post(f, m, table) ==
    IF form_is_valid(f)
    THEN LET done == save_licences(zip(f.sn, f.niw), 1, NewLicence, table, f, m)
         IN  IF done.bound
             THEN [table |-> done.table, message |-> Len(f.sn),
                   response |-> [kind |-> "redirect", pk |-> done.licence.pk]]
             ELSE [table |-> done.table, message |-> Len(f.sn),
                   response |-> [kind |-> "UnboundLocalError", pk |-> PyNone]]
    ELSE [table |-> table, message |-> PyNone,
          response |-> [kind |-> "render", pk |-> PyNone]]

\* The inputs: up to MaxPairs lines of two licence keys and two inventory
\* numbers, and a table that is empty or holds one licence.
LineLists(S) == SeqsUpTo(S, MaxPairs)
Forms == [fields_ok : BOOLEAN, sn : LineLists({"k1", "k2"}),
          niw : LineLists({"n1", "n2"}),
          asset_type : {"None", "data_center", "back_office"}]
LicenceTables ==
    {<<>>, <<[pk |-> 1, sn |-> "k0", niw |-> "n0", asset_type |-> "back_office"]>>}
NoPost == [kind |-> "none", pk |-> PyNone]

(***************************************************************************)
(* Actions.                                                                *)
(***************************************************************************)
\* The endpoint has read the rack and one side's items; nothing is computed yet.
RackInit ==
    /\ max_height \in RackHeights
    /\ devices \in DeviceLists
    /\ rack_outcome = "none"
    /\ empty_positions = {}
    /\ positions_left = <<>>
    /\ call_log = <<>>
    /\ rack = NoRack
    /\ device_infos = <<>>
    /\ rack_accessories = <<>>
    /\ response = NoResponse
    /\ mode = "dc"
    /\ form = [fields_ok |-> FALSE, sn |-> <<>>, niw |-> <<>>, asset_type |-> "None"]
    /\ licences = <<>>
    /\ licences_before = <<>>
    /\ message = PyNone
    /\ post_response = NoPost
    /\ asset = IdleAsset
    /\ clock = NoDate
    /\ ticks = 0
    /\ self_before = IdleAsset
    /\ today = NoDate
    /\ deprecation_date = NoDate
    /\ dep_outcome = "none"
    /\ result = FALSE

\* The call get_empty_positions(rack.max_u_height, results).
CallGetEmptyPositions ==
    LET r == get_empty_positions(max_height, devices)
    IN  /\ rack_outcome' = r.exc
        /\ empty_positions' = r.value
        /\ positions_left' = positions_after(devices)
        /\ devices' = devices_after(devices)
        /\ UNCHANGED <<max_height, call_log, dep_vars, endpoint_vars, licence_vars>>

SpecRack == RackInit /\ [][CallGetEmptyPositions]_vars

\* No call has been made yet.
CallsInit ==
    /\ max_height = 0
    /\ devices = <<>>
    /\ rack_outcome = "none"
    /\ empty_positions = {}
    /\ positions_left = <<>>
    /\ call_log = <<>>
    /\ rack = NoRack
    /\ device_infos = <<>>
    /\ rack_accessories = <<>>
    /\ response = NoResponse
    /\ mode = "dc"
    /\ form = [fields_ok |-> FALSE, sn |-> <<>>, niw |-> <<>>, asset_type |-> "None"]
    /\ licences = <<>>
    /\ licences_before = <<>>
    /\ message = PyNone
    /\ post_response = NoPost
    /\ asset = IdleAsset
    /\ clock = NoDate
    /\ ticks = 0
    /\ self_before = IdleAsset
    /\ today = NoDate
    /\ deprecation_date = NoDate
    /\ dep_outcome = "none"
    /\ result = FALSE

\* One more call get_empty_positions(max_h, devs), whatever was called before.
CallAgain ==
    /\ Len(call_log) < MaxCalls
    /\ \E max_h \in CallHeights, devs \in CallDeviceLists :
          LET r == get_empty_positions(max_h, devs)
          IN  /\ max_height' = max_h
              /\ devices' = devices_after(devs)
              /\ rack_outcome' = r.exc
              /\ empty_positions' = r.value
              /\ positions_left' = positions_after(devs)
              /\ call_log' = Append(call_log,
                                    [max_height |-> max_h, devices |-> devs,
                                     devices_after |-> devices_after(devs),
                                     exc |-> r.exc, value |-> r.value])
              /\ UNCHANGED <<dep_vars, endpoint_vars, licence_vars>>

SpecRackCalls == CallsInit /\ [][CallAgain]_vars

\* An asset record as loaded or as filled from a form, and the clock.
AssetInit ==
    /\ asset \in Assets
    /\ clock \in ClockDates
    /\ ticks = 0
    /\ self_before = IdleAsset
    /\ today = NoDate
    /\ deprecation_date = NoDate
    /\ dep_outcome = "none"
    /\ result = FALSE
    /\ max_height = 0
    /\ devices = <<>>
    /\ rack_outcome = "none"
    /\ empty_positions = {}
    /\ positions_left = <<>>
    /\ call_log = <<>>
    /\ rack = NoRack
    /\ device_infos = <<>>
    /\ rack_accessories = <<>>
    /\ response = NoResponse
    /\ mode = "dc"
    /\ form = [fields_ok |-> FALSE, sn |-> <<>>, niw |-> <<>>, asset_type |-> "None"]
    /\ licences = <<>>
    /\ licences_before = <<>>
    /\ message = PyNone
    /\ post_response = NoPost

\* A call asset.is_deprecated().
CallIsDeprecated ==
    LET r == is_deprecated(asset, clock)
    IN  /\ self_before' = asset
        /\ asset' = r.self
        /\ today' = r.today
        /\ deprecation_date' = r.deprecation_date
        /\ dep_outcome' = r.exc
        /\ result' = r.value
        /\ UNCHANGED <<clock, ticks, rack_vars, endpoint_vars, licence_vars>>

\* Midnight passes.
Tick ==
    /\ ticks < MaxTicks
    /\ ticks' = ticks + 1
    /\ clock' = next_day(clock)
    /\ UNCHANGED <<asset, self_before, today, deprecation_date, dep_outcome,
                   result, rack_vars, endpoint_vars, licence_vars>>

NextAsset == CallIsDeprecated \/ Tick

SpecAsset == AssetInit /\ [][NextAsset]_vars

\* The tables as a request finds them.
EndpointInit ==
    /\ rack \in {NoRack} \cup [exists : {TRUE}, max_u_height : 1..MaxUnits]
    /\ device_infos \in SeqsUpTo(DeviceInfoRows, MaxAssetRows)
    /\ rack_accessories \in SeqsUpTo(RackAccessoryRows, 1)
    /\ response = NoResponse
    /\ mode = "dc"
    /\ form = [fields_ok |-> FALSE, sn |-> <<>>, niw |-> <<>>, asset_type |-> "None"]
    /\ licences = <<>>
    /\ licences_before = <<>>
    /\ message = PyNone
    /\ post_response = NoPost
    /\ max_height = 0
    /\ devices = <<>>
    /\ rack_outcome = "none"
    /\ empty_positions = {}
    /\ positions_left = <<>>
    /\ call_log = <<>>
    /\ asset = IdleAsset
    /\ clock = NoDate
    /\ ticks = 0
    /\ self_before = IdleAsset
    /\ today = NoDate
    /\ deprecation_date = NoDate
    /\ dep_outcome = "none"
    /\ result = FALSE

\* GET for the rack: 404 when there is no such rack, else both sides.
GetRackInfo ==
    /\ response = NoResponse
    /\ IF ~rack.exists
       THEN response' = [status |-> 404, sides |-> <<>>]
       ELSE \E front \in get_data_by_side(rack.max_u_height, device_infos,
                                          rack_accessories, Sides[1]),
               back \in get_data_by_side(rack.max_u_height, device_infos,
                                         rack_accessories, Sides[2]) :
                response' = [status |-> 200,
                             sides |-> <<[type |-> Sides[1], items |-> front],
                                         [type |-> Sides[2], items |-> back]>>]
    /\ UNCHANGED <<rack, device_infos, rack_accessories, rack_vars, dep_vars,
                   licence_vars>>

SpecEndpoint == EndpointInit /\ [][GetRackInfo]_vars

\* A form has been posted to the add-licence page.
LicenceInit ==
    /\ mode \in Modes
    /\ form \in Forms
    /\ licences \in LicenceTables
    /\ licences_before = licences
    /\ message = PyNone
    /\ post_response = NoPost
    /\ max_height = 0
    /\ devices = <<>>
    /\ rack_outcome = "none"
    /\ empty_positions = {}
    /\ positions_left = <<>>
    /\ call_log = <<>>
    /\ rack = NoRack
    /\ device_infos = <<>>
    /\ rack_accessories = <<>>
    /\ response = NoResponse
    /\ asset = IdleAsset
    /\ clock = NoDate
    /\ ticks = 0
    /\ self_before = IdleAsset
    /\ today = NoDate
    /\ deprecation_date = NoDate
    /\ dep_outcome = "none"
    /\ result = FALSE

\* AddLicence.post handles the request.
PostAddLicence ==
    /\ post_response = NoPost
    /\ LET r == post(form, mode, licences)
       IN  /\ licences' = r.table
           /\ message' = r.message
           /\ post_response' = r.response
    /\ UNCHANGED <<mode, form, licences_before, rack_vars, dep_vars, endpoint_vars>>

SpecLicence == LicenceInit /\ [][PostAddLicence]_vars

(***************************************************************************)
(* Claims about get_empty_positions (checked under SpecRack).              *)
(***************************************************************************)
RackCalled == rack_outcome # "none"

\* The range [position, position + height - 1] the data model gives an item:
\* an accessory is 1 unit high, an asset as high as its model.
PlacedHeight(item) == IF item._type = TYPE_ACCESSORY THEN 1 ELSE item.height
Occupied(item) == item.position..(item.position + PlacedHeight(item) - 1)
OccupiedBy(devs) == UNION {Occupied(devs[i]) : i \in 1..Len(devs)}

\* C1: for max_height >= 1 the call returns exactly {1..max_height} minus the
\* union of the items' ranges [position, position+height-1] (an accessory
\* counting 1 unit, an asset its own height); with no items, all of 1..max_height.
C1_ExactEmptySet ==
    (RackCalled /\ max_height >= 1) =>
        /\ rack_outcome = "return"
        /\ empty_positions = (1..max_height) \ OccupiedBy(devices)
        /\ (devices = <<>> => empty_positions = 1..max_height)

\* The scenario of the specification: max_height 4, an accessory at 2 and an
\* asset of height 1 at 3 leave {1, 4}.
C1_Witness ==
    /\ rack_outcome = "return"
    /\ max_height = 4
    /\ devices = <<[_type |-> TYPE_ACCESSORY, position |-> 2],
                   [_type |-> TYPE_ASSET, position |-> 3, height |-> 1]>>
    /\ empty_positions = {1, 4}

\* C2: no returned position lies inside any item's range, every returned
\* position lies in [1, max_height], and when the items' ranges together are
\* exactly [1, max_height] nothing is returned.
C2_NoCoveredPosition ==
    rack_outcome = "return" =>
        /\ \A p \in empty_positions :
              /\ 1 <= p /\ p <= max_height
              /\ \A i \in 1..Len(devices) :
                    ~(devices[i].position <= p
                      /\ p <= devices[i].position + PlacedHeight(devices[i]) - 1)
        /\ (OccupiedBy(devices) = 1..max_height => empty_positions = {})

\* A rack of at least 3 units filled exactly by two items.
C2_Witness ==
    /\ rack_outcome = "return"
    /\ max_height >= 3
    /\ Len(devices) = 2
    /\ OccupiedBy(devices) = 1..max_height
    /\ empty_positions = {}

\* C3 as claimed: a call with max_height <= 0 fails with InvalidRackHeight.
C3_InvalidRackHeightRaised ==
    (RackCalled /\ max_height <= 0) => rack_outcome = "InvalidRackHeight"

\* C3 as the code has it: a call with max_height <= 0 raises nothing and
\* returns the empty set.
C3_NonPositiveHeightGivesEmptySet ==
    (RackCalled /\ max_height <= 0) =>
        (rack_outcome = "return" /\ empty_positions = {})

C3_Witness ==
    /\ rack_outcome = "return"
    /\ max_height <= 0
    /\ devices # <<>>
    /\ empty_positions = {}

\* The orderings of a list: every bijection of its indices applied to it.
Reorderings(devs) ==
    LET n == Len(devs)
    IN  {[i \in 1..n |-> devs[f[i]]] :
            f \in {g \in [1..n -> 1..n] : \A a, b \in 1..n : a # b => g[a] # g[b]}}

\* devs with item e put in front of index k (k = Len(devs) + 1 appends it).
InsertAt(devs, e, k) ==
    [i \in 1..(Len(devs) + 1) |->
        IF i < k THEN devs[i] ELSE IF i = k THEN e ELSE devs[i - 1]]

\* C7: the returned set does not depend on the order of the items, and an
\* item whose range the other items already cover changes nothing, wherever
\* in the list it stands.
C7_OrderAndAbsorption ==
    rack_outcome = "return" =>
        /\ \A devs \in Reorderings(devices) :
              get_empty_positions(max_height, devs) =
                  [exc |-> "return", value |-> empty_positions]
        /\ \A e \in Items :
              Occupied(e) \subseteq OccupiedBy(devices) =>
                  \A k \in 1..(Len(devices) + 1) :
                      get_empty_positions(max_height, InsertAt(devices, e, k)) =
                          [exc |-> "return", value |-> empty_positions]

\* Two different items whose ranges overlap without either holding the other,
\* with a unit left free.
C7_Witness ==
    /\ rack_outcome = "return"
    /\ Len(devices) = 2
    /\ devices[1] # devices[2]
    /\ Occupied(devices[1]) \cap Occupied(devices[2]) # {}
    /\ ~(Occupied(devices[1]) \subseteq Occupied(devices[2]))
    /\ ~(Occupied(devices[2]) \subseteq Occupied(devices[1]))
    /\ empty_positions # {}

\* An item cut down to the part of its range inside [1, max_h]: an asset
\* dict starting at the first unit kept and as high as the units kept
\* (height 0 when none is).
ClipItem(item, max_h) ==
    LET lo == IF item.position < 1 THEN 1 ELSE item.position
        top == item.position + PlacedHeight(item) - 1
        hi == IF top > max_h THEN max_h ELSE top
    IN  [_type |-> TYPE_ASSET, position |-> lo,
         height |-> IF hi >= lo THEN hi - lo + 1 ELSE 0]

ClipAll(devs, max_h) == [i \in 1..Len(devs) |-> ClipItem(devs[i], max_h)]

OutOfRack(item, max_h) ==
    item.position < 1 \/ item.position + PlacedHeight(item) - 1 > max_h

\* C10: items reaching past [1, max_height] are no error: the call returns a
\* set, the one it returns for the same items clipped to [1, max_height].
C10_OutOfRangeTolerated ==
    (RackCalled /\ \E i \in 1..Len(devices) : OutOfRack(devices[i], max_height)) =>
        /\ rack_outcome = "return"
        /\ get_empty_positions(max_height, ClipAll(devices, max_height)) =
               [exc |-> "return", value |-> empty_positions]

\* One item sticking out of the top of the rack, one wholly beyond it.
C10_Witness ==
    /\ rack_outcome = "return"
    /\ max_height >= 2
    /\ Len(devices) = 2
    /\ devices[1].position <= max_height
    /\ devices[1].position + PlacedHeight(devices[1]) - 1 > max_height
    /\ devices[2].position > max_height
    /\ empty_positions # {}

(***************************************************************************)
(* Claims about Asset.is_deprecated (checked under SpecAsset).             *)
(***************************************************************************)
DepCalled == dep_outcome # "none"

\* The calendar date a value of invoice_date stands for: the date itself, or
\* the date whose '%Y-%m-%d' form the string is.
DateMeant(v) ==
    IF v.type = "basestring"
    THEN CHOOSE d \in InvoiceDates : strftime(d) = v.text
    ELSE v.date

\* Days before d in a calendar of 12 months of 31 slots: grows with the date.
DaySlot(d) == (d[1] * 12 + (d[2] - 1)) * 31 + d[3]

\* d moved n calendar months on, the day kept unless the month reached is
\* shorter, then its last day.
MonthsLater(d, n) ==
    LET m == d[1] * 12 + (d[2] - 1) + n
        last == days_in_month(m \div 12, (m % 12) + 1)
    IN  <<m \div 12, (m % 12) + 1, IF d[3] < last THEN d[3] ELSE last>>

BothPresent(self) ==
    self.invoice_date.type # "None" /\ self.support_period \notin {PyNone, 0}

\* C4: with invoice_date absent, or support_period absent or zero, the call
\* returns False and raises nothing, whatever the other field and the date.
C4_MissingFieldsGiveFalse ==
    (DepCalled /\ ~BothPresent(self_before)) =>
        (dep_outcome = "return" /\ result = FALSE)

\* An invoice date long past with a support period of 0, and no invoice date
\* with a support period of 12 months: neither is deprecated.
C4_Witness ==
    /\ dep_outcome = "return"
    /\ result = FALSE
    /\ clock[1] = 2022
    /\ \/ /\ self_before.invoice_date = DateValue(<<2020, 1, 31>>)
          /\ self_before.support_period = 0
       \/ /\ self_before.invoice_date = NoneValue
          /\ self_before.support_period = 12

\* C5: with both fields present the call returns True exactly when
\* deprecation_date is strictly before today: False on the day itself, True
\* on the day after.
C5_StrictlyAfterDeprecationDate ==
    (DepCalled /\ BothPresent(self_before)) =>
        /\ dep_outcome = "return"
        /\ result = (DaySlot(deprecation_date) < DaySlot(today))
        /\ (today = deprecation_date => result = FALSE)
        /\ (today = next_day(deprecation_date) => result = TRUE)

\* Invoiced on 2020-01-01 with 12 months of support, asked on 2021-01-02.
C5_Witness ==
    /\ dep_outcome = "return"
    /\ self_before.invoice_date = DateValue(<<2020, 1, 1>>)
    /\ self_before.support_period = 12
    /\ today = <<2021, 1, 2>>
    /\ result = TRUE

\* The boundary day itself: invoiced on 2020-01-01 with 12 months of
\* support, asked on 2021-01-01.
C5_BoundaryDayReached ==
    /\ dep_outcome = "return"
    /\ self_before.invoice_date = DateValue(<<2020, 1, 1>>)
    /\ self_before.support_period = 12
    /\ today = <<2021, 1, 1>>
    /\ result = FALSE

\* C6: deprecation_date is invoice_date moved support_period calendar months
\* on, the day of the month kept and cut down to the last day of a shorter
\* month; it is not a shift by 30 days a month.
C6_CalendarMonths ==
    (DepCalled /\ BothPresent(self_before)) =>
        LET inv == DateMeant(self_before.invoice_date)
            n == self_before.support_period
        IN  /\ deprecation_date = MonthsLater(inv, n)
            /\ IsDate(deprecation_date)
            /\ (deprecation_date[1] * 12 + deprecation_date[2])
                   - (inv[1] * 12 + inv[2]) = n
            /\ deprecation_date[3] <= inv[3]

\* 31 January 2020 plus 13 months is 28 February 2021.
C6_Witness ==
    /\ dep_outcome = "return"
    /\ DateMeant(self_before.invoice_date) = <<2020, 1, 31>>
    /\ self_before.support_period = 13
    /\ deprecation_date = <<2021, 2, 28>>

C9_RecordUnchanged ==
    DepCalled => asset = self_before

(***************************************************************************)
(* Claims about calls made one after another (checked under SpecRackCalls).*)
(***************************************************************************)
\* C11: whatever calls came before, two calls with the same max_height and
\* the same items return the same set, and a call leaves the items it was
\* given as they were.
C11_NoHiddenState ==
    /\ \A i, j \in 1..Len(call_log) :
          (/\ call_log[i].max_height = call_log[j].max_height
           /\ call_log[i].devices = call_log[j].devices) =>
              (/\ call_log[i].exc = call_log[j].exc
               /\ call_log[i].value = call_log[j].value)
    /\ \A i \in 1..Len(call_log) :
          call_log[i].devices_after = call_log[i].devices

\* A call, a call with other items that fill units the first left free, and
\* the first call again.
C11_Witness ==
    /\ Len(call_log) = 3
    /\ call_log[1].max_height = call_log[3].max_height
    /\ call_log[1].devices = call_log[3].devices
    /\ call_log[2].devices # call_log[1].devices
    /\ call_log[1].value \ call_log[2].value # {}
    /\ call_log[3].value = call_log[1].value
    /\ call_log[3].exc = "return"

(***************************************************************************)
(* Claims about the rack endpoint (checked under SpecEndpoint).            *)
(***************************************************************************)
\* Unit p is inside the range of a row placed on the side.
CoveredOnSide(p, side) ==
    \/ \E i \in 1..Len(device_infos) :
          /\ device_infos[i].orientation = side
          /\ device_infos[i].position <= p
          /\ p <= device_infos[i].position + device_infos[i].height - 1
    \/ \E i \in 1..Len(rack_accessories) :
          /\ rack_accessories[i].orientation = side
          /\ rack_accessories[i].position = p

\* The rows of one orientation, as item dicts in the order of the table.
RECURSIVE AssetsOfSide(_, _)
AssetsOfSide(rows, side) ==
    IF rows = <<>> THEN <<>>
    ELSE (IF Head(rows).orientation = side
          THEN <<[_type |-> "asset", position |-> Head(rows).position,
                  height |-> Head(rows).height]>>
          ELSE <<>>) \o AssetsOfSide(Tail(rows), side)

RECURSIVE AccessoriesOfSide(_, _)
AccessoriesOfSide(rows, side) ==
    IF rows = <<>> THEN <<>>
    ELSE (IF Head(rows).orientation = side
          THEN <<[_type |-> "accessory", position |-> Head(rows).position]>>
          ELSE <<>>) \o AccessoriesOfSide(Tail(rows), side)

SideAsClaimed(k, side) ==
    LET items == response.sides[k].items
        placed == AssetsOfSide(device_infos, side)
                      \o AccessoriesOfSide(rack_accessories, side)
        rest == (Len(placed) + 1)..Len(items)
    IN  /\ response.sides[k].type = side
        /\ Len(items) >= Len(placed)
        /\ SubSeq(items, 1, Len(placed)) = placed
        /\ \A i \in rest : items[i]._type = "empty"
        /\ \A i \in rest : items[i].position \in 1..rack.max_u_height
        /\ \A i \in rest : ~CoveredOnSide(items[i].position, side)
        /\ \A p \in 1..rack.max_u_height :
              Cardinality({i \in rest : items[i].position = p}) =
                  (IF CoveredOnSide(p, side) THEN 0 ELSE 1)

\* C12: the response lists front then back; each side holds its assets, then
\* its accessories, then one 'empty' entry for every unit of 1..max_u_height
\* that no asset or accessory of that same side covers; rows of the other
\* side play no part, and no unit is both 'empty' and covered on its side.
C12_SidesListed ==
    response.status = 200 =>
        /\ Len(response.sides) = 2
        /\ SideAsClaimed(1, "front")
        /\ SideAsClaimed(2, "back")

\* An asset on the front covering every unit and an accessory on the back:
\* the front has no empty entry, the back has one.
C12_Witness ==
    /\ response.status = 200
    /\ rack.max_u_height = 2
    /\ Len(device_infos) = 1
    /\ device_infos[1] = [orientation |-> "front", position |-> 1, height |-> 2]
    /\ rack_accessories = <<[orientation |-> "back", position |-> 2]>>
    /\ response.sides[1].items = <<[_type |-> "asset", position |-> 1, height |-> 2]>>
    /\ response.sides[2].items = <<[_type |-> "accessory", position |-> 2],
                                   [_type |-> "empty", position |-> 1]>>

(***************************************************************************)
(* Claims about is_deprecated as the days pass (checked under SpecAsset).  *)
(***************************************************************************)
\* C13: for one asset, once a call has returned True every later call
\* returns True: as the clock moves on the answer never goes back to False.
C13_OnceDeprecatedStaysDeprecated ==
    [][(dep_outcome = "return" /\ result = TRUE) =>
          (dep_outcome' = "return" /\ result' = TRUE)]_vars

\* A call made after midnight has passed, on an asset that was deprecated
\* the day before already, and made on the record an earlier call left.
C13_Witness ==
    /\ dep_outcome = "return"
    /\ ticks >= 1
    /\ today = clock
    /\ result = TRUE
    /\ next_day(deprecation_date) # today
    /\ self_before.invoice_date.type = "datetime"

(***************************************************************************)
(* Claims about AddLicence.post (checked under SpecLicence).               *)
(***************************************************************************)
Posted == post_response.kind # "none"

\* The rows the request added to the table.
AddedLicences == SubSeq(licences, Len(licences_before) + 1, Len(licences))

C14_InvalidFormReached ==
    /\ post_response.kind = "render"
    /\ form.fields_ok
    /\ Len(form.sn) # Len(form.niw)
    /\ licences = licences_before

=============================================================================
